---- MODULE Spec2Model ----
(***************************************************************************)
(* Model of the two browser scripts of the Time_AI front end:              *)
(*   "main" : src/unnamed/part_000 (apiGet/apiPost, renderCourses,         *)
(*            renderAssignments, the btnAll/btnSearch/btnSchedule          *)
(*            click handlers)                                              *)
(*   "app"  : src/frontend/app.js  (render, loadAll, doSearch)             *)
(* A state is the DOM the scripts write, the set of handler continuations  *)
(* suspended at an await (requests in flight), and a record of the last    *)
(* event that ran.  User-visible texts are Korean in the source; they are  *)
(* written here in ASCII.                                                  *)
(***************************************************************************)
EXTENDS Integers, Sequences, FiniteSets, TLC

VARIABLES script, inflight, nextId,
          coursesInfo, coursesWrap, summary, assignmentsWrap,
          meta, thead, tbody,
          src, courseReq, shapesOk, anyFailed, event, call

vars == <<script, inflight, nextId, coursesInfo, coursesWrap, summary,
          assignmentsWrap, meta, thead, tbody, src, courseReq, shapesOk,
          anyFailed, event, call>>

mainDom == <<coursesInfo, coursesWrap, summary, assignmentsWrap>>
appDom == <<meta, thead, tbody>>

\* ------------------------------------------------------------------ bounds
\* number of requests one run may issue, the initial load included
MaxRequests == 3
\* longest list handed to a render function in SpecRender
MaxLen == 2

\* --------------------------------------------------------------- JS values
Null == [t |-> "null"]
Undef == [t |-> "undef"]
NotJSON == [t |-> "notjson"]
Str(s) == [t |-> "str", s |-> s]
Num(n) == [t |-> "num", n |-> n]
Bool(b) == [t |-> "bool", b |-> b]
Arr(a) == [t |-> "arr", a |-> a]
\* an object is the sequence of its own properties in insertion order
Obj(o) == [t |-> "obj", o |-> o]
P(k, v) == [k |-> k, v |-> v]

Nullish(v) == v.t \in {"null", "undef"}

\* JS truthiness, as used by !x, x || y
Truthy(v) ==
  CASE v.t \in {"null", "undef"} -> FALSE
    [] v.t = "str" -> v.s # ""
    [] v.t = "num" -> v.n # 0
    [] v.t = "bool" -> v.b
    [] OTHER -> TRUE

\* v[k] for a v that is not null/undefined (reading a property of those throws)
Get(v, k) ==
  CASE v.t = "obj" ->
         IF \E i \in 1..Len(v.o) : v.o[i].k = k
           THEN v.o[CHOOSE i \in 1..Len(v.o) : v.o[i].k = k].v
           ELSE Undef
    [] v.t = "arr" -> IF k = "length" THEN Num(Len(v.a)) ELSE Undef
    [] OTHER -> Undef

\* Object.keys(v) for an object: own keys in insertion order
Keys(v) == IF v.t = "obj" THEN [i \in 1..Len(v.o) |-> v.o[i].k] ELSE <<>>

\* a || b
Or(a, b) == IF Truthy(a) THEN a ELSE b

\* String(v), as done by new Error(v) and by template literals, for the values used
NumStr(n) ==
  CASE n = 0 -> "0" [] n = 1 -> "1" [] n = 2 -> "2" [] n = 3 -> "3" [] n = 4 -> "4"
    [] n = 5 -> "5" [] n = 6 -> "6" [] n = 7 -> "7" [] n = 8 -> "8" [] OTHER -> "9+"

ToStr(v) ==
  CASE v.t = "str" -> v.s
    [] v.t = "num" -> NumStr(v.n)
    [] v.t = "null" -> "null"
    [] v.t = "undef" -> "undefined"
    [] OTHER -> "[object]"

\* ------------------------------------------------------------ sample texts
Markup == "x</td><td>y"
\* String.prototype.trim on the texts an input field holds in the model
Trim(s) ==
  CASE s = "  " -> ""
    [] s = " ai " -> "ai"
    [] s = " no class on friday " -> "no class on friday"
    [] s = " TUE " -> "TUE"
    [] s = " " -> ""
    [] OTHER -> s

\* Number(s) for the non-empty numeric texts an input field holds in the model
Number(s) ==
  CASE s = "6" -> 6
    [] s = "45" -> 45
    [] s = "2" -> 2
    [] OTHER -> 0

\* the table cells the HTML parser makes of "<td>" + s + "</td>" inside a row:
\* text is one cell, a text holding cell tags is split at them
HtmlCells(s) == IF s = Markup THEN <<"x", "y">> ELSE <<s>>

RECURSIVE Flatten(_)
Flatten(ss) == IF ss = <<>> THEN <<>> ELSE Head(ss) \o Flatten(Tail(ss))

\* `${v ?? ""}`
CellText(v) == IF Nullish(v) THEN "" ELSE ToStr(v)

\* tr.innerHTML = cols.map(c => `<td>${row[c] ?? ""}</td>`).join("") : the cells of the row
RowCells(cols, row) ==
  Flatten([i \in 1..Len(cols) |-> HtmlCells(CellText(Get(row, cols[i])))])

\* thead.innerHTML = "<tr>" + cols.map(c => `<th>${c}</th>`).join("") + "</tr>"
HeadCells(cols) == Flatten([i \in 1..Len(cols) |-> HtmlCells(cols[i])])

\* ------------------------------------------------------------ HTTP helpers
\* a response: status "neterr" (fetch rejects), "ok" (2xx) or "fail" (non-2xx),
\* and a body given by its text and what JSON.parse makes of it
Thrown(m) == [thrown |-> TRUE, message |-> m, value |-> Undef]
Returned(v) == [thrown |-> FALSE, message |-> "", value |-> v]

\* the try block of lines 30/46: JSON.parse(txt), then throw new Error(...)
ApiTry(body) ==
  IF body.json = NotJSON THEN Thrown("SyntaxError: Unexpected token")
  ELSE IF Nullish(body.json) THEN Thrown("TypeError: Cannot read properties of null")
  ELSE Thrown(ToStr(Or(Get(body.json, "detail"),
                       Or(Get(body.json, "message"), Str(body.txt)))))

ApiGet(res) ==
  IF res.status = "neterr" THEN Thrown("Failed to fetch")
  ELSE IF res.status # "ok"
    THEN \* catch { throw new Error(txt); } catches whatever the try block threw
         IF ApiTry(res.body).thrown THEN Thrown(res.body.txt) ELSE ApiTry(res.body)
  ELSE IF res.body.json = NotJSON THEN Thrown("SyntaxError: Unexpected token")
  ELSE Returned(res.body.json)

ApiPost(res) ==
  IF res.status = "neterr" THEN Thrown("Failed to fetch")
  ELSE IF res.status # "ok"
    THEN IF ApiTry(res.body).thrown THEN Thrown(res.body.txt) ELSE ApiTry(res.body)
  ELSE IF res.body.json = NotJSON THEN Thrown("SyntaxError: Unexpected token")
  ELSE Returned(res.body.json)

\* --------------------------------------------------------------- rendering
NoResults == [tag |-> "div", text |-> "No results"]
NoAssignments == [tag |-> "div", text |-> "No assignments"]
NoData == <<"No data">>
Table(head, rows) == [tag |-> "table", head |-> head, rows |-> rows]

\* the index of the first null/undefined element of a list of rows, 0 if none
FirstNullish(a) ==
  IF \E i \in 1..Len(a) : Nullish(a[i])
    THEN CHOOSE i \in 1..Len(a) : Nullish(a[i]) /\ \A j \in 1..(i-1) : ~Nullish(a[j])
    ELSE 0

\* renderCourses with the label written after the empty-list return
RenderCoursesLabelLast(list, total, oldInfo) ==
  LET out(w, i, wrote, th) == [wrap |-> w, info |-> i, wroteInfo |-> wrote, thrown |-> th]
  IN
  IF Nullish(list) THEN out(<<>>, oldInfo, FALSE, TRUE)
  ELSE IF ~Truthy(Get(list, "length")) \/ list.t # "arr" THEN out(<<NoResults>>, oldInfo, FALSE, FALSE)
  ELSE
    LET cols == Keys(Or(list.a[1], Obj(<<>>)))
        info == IF Nullish(total)
                  THEN <<"Total ", ToStr(Get(list, "length")), " items">>
                  ELSE <<"Search results ", ToStr(total), " items">>
    IN out(<<Table(HeadCells(cols), [i \in 1..Len(list.a) |-> RowCells(cols, list.a[i])])>>,
           info, TRUE, FALSE)

\* renderCourses(list, total) of the main script.  The result gives the new
\* children of coursesWrap, the new text of coursesInfo (oldInfo when the
\* function throws before line 56) and whether it threw.
RenderCourses(list, total, oldInfo) ==
  LET cleared == <<>>
      out(w, i, wrote, th) == [wrap |-> w, info |-> i, wroteInfo |-> wrote, thrown |-> th]
  IN
  IF Nullish(total) /\ Nullish(list) THEN out(cleared, oldInfo, FALSE, TRUE)
  ELSE
    LET info == IF Nullish(total)
                  THEN <<"Total ", ToStr(Get(list, "length")), " items">>
                  ELSE <<"Search results ", ToStr(total), " items">>
    IN
    IF Nullish(list) THEN out(cleared, info, TRUE, TRUE)
    ELSE IF ~Truthy(Get(list, "length")) THEN out(<<NoResults>>, info, TRUE, FALSE)
    ELSE IF list.t # "arr" THEN out(cleared, info, TRUE, TRUE)
    ELSE
      LET cols == Keys(Or(list.a[1], Obj(<<>>)))
      IN
      IF cols # <<>> /\ FirstNullish(list.a) # 0 THEN out(cleared, info, TRUE, TRUE)
      ELSE out(<<Table(HeadCells(cols),
                       [i \in 1..Len(list.a) |-> RowCells(cols, list.a[i])])>>,
               info, TRUE, FALSE)

\* render(rows) of app.js: the new rows of #tbl thead and #tbl tbody
Render(rows) ==
  LET out(h, b, th) == [thead |-> h, tbody |-> b, thrown |-> th]
  IN
  IF Nullish(rows) THEN out(<<>>, <<>>, TRUE)
  ELSE IF ~Truthy(Get(rows, "length")) THEN out(<<NoData>>, <<>>, FALSE)
  ELSE IF rows.t # "arr" \/ Nullish(rows.a[1]) THEN out(<<>>, <<>>, TRUE)
  ELSE
    LET cols == Keys(rows.a[1])
        bad == IF cols = <<>> THEN 0 ELSE FirstNullish(rows.a)
        n == IF bad = 0 THEN Len(rows.a) ELSE bad - 1
    IN out(<<HeadCells(cols)>>, [i \in 1..n |-> RowCells(cols, rows.a[i])], bad # 0)

AssignmentHead == <<"course_id", "session", "day", "block", "room">>
AssignmentKeys == <<"course_id", "session_index", "day", "block", "room_id">>

\* renderAssignments testing only assignments.length
RenderAssignmentsNoNullCheck(assignments) ==
  IF Nullish(assignments) THEN [wrap |-> <<>>, thrown |-> TRUE]
  ELSE IF ~Truthy(Get(assignments, "length")) THEN [wrap |-> <<NoAssignments>>, thrown |-> FALSE]
  ELSE [wrap |-> <<Table(AssignmentHead,
                   [i \in 1..Len(assignments.a) |->
                      Flatten([k \in 1..5 |->
                        HtmlCells(ToStr(Get(assignments.a[i], AssignmentKeys[k])))])])>>,
        thrown |-> FALSE]

\* renderAssignments(assignments) of the main script: the new children of assignmentsWrap
RenderAssignments(assignments) ==
  LET out(w, th) == [wrap |-> w, thrown |-> th]
  IN
  IF ~Truthy(assignments) \/ ~Truthy(Get(assignments, "length")) THEN out(<<NoAssignments>>, FALSE)
  ELSE IF assignments.t # "arr" \/ FirstNullish(assignments.a) # 0 THEN out(<<>>, TRUE)
  ELSE out(<<Table(AssignmentHead,
                   [i \in 1..Len(assignments.a) |->
                      Flatten([k \in 1..5 |->
                        HtmlCells(ToStr(Get(assignments.a[i], AssignmentKeys[k])))])])>>,
           FALSE)

\* `${v ?? "?"}`
OrQ(v) == IF Nullish(v) THEN "?" ELSE ToStr(v)

\* the summary block of lines 145-150, for s = res.summary || {}
SummaryHtml(s) ==
  [courses |-> OrQ(Get(s, "courses")), rooms |-> OrQ(Get(s, "rooms")),
   instructors |-> OrQ(Get(s, "instructors")),
   days |-> IF Get(s, "days").t = "arr"
              THEN [i \in 1..Len(Get(s, "days").a) |-> ToStr(Get(s, "days").a[i])]
              ELSE <<>>,
   blocks_per_day |-> OrQ(Get(s, "blocks_per_day"))]

\* ------------------------------------------------- what the server may send
Item1 == Obj(<<P("id", Str("c1")), P("name", Str("AI"))>>)
Item2 == Obj(<<P("id", Str("c2")), P("name", Null), P("room", Str("R1"))>>)
Assign1 == Obj(<<P("course_id", Str("c1")), P("session_index", Num(0)), P("day", Str("MON")),
                 P("block", Num(2)), P("room_id", Str("R1"))>>)
Summary1 == Obj(<<P("courses", Num(2)), P("rooms", Num(1)), P("instructors", Num(1)),
                  P("days", Arr(<<Str("MON"), Str("TUE")>>)), P("blocks_per_day", Num(8))>>)

Body(txt, json) == [txt |-> txt, json |-> json]

\* GET /courses -> array of course objects
CourseBodies ==
  { Body("[]", Arr(<<>>)),
    Body("[c1,c2]", Arr(<<Item1, Item2>>)) }

\* GET /search -> { results, total }
SearchBodies ==
  { Body("{results:[],total:0}", Obj(<<P("results", Arr(<<>>)), P("total", Num(0))>>)),
    Body("{results:[c2],total:7}", Obj(<<P("results", Arr(<<Item2>>)), P("total", Num(7))>>)) }

\* POST /schedule -> { summary, solution: { assignments } }
ScheduleBodies ==
  { Body("{summary,solution:[a1]}",
         Obj(<<P("summary", Summary1),
               P("solution", Obj(<<P("assignments", Arr(<<Assign1>>))>>))>>)),
    Body("{summary,solution:[]}",
         Obj(<<P("summary", Summary1),
               P("solution", Obj(<<P("assignments", Arr(<<>>))>>))>>)) }

\* error bodies: JSON with detail and/or message, raw text, and JSON null
ErrorBodies ==
  { Body("{detail:D}", Obj(<<P("detail", Str("D"))>>)),
    Body("{detail:'',message:M}", Obj(<<P("detail", Str("")), P("message", Str("M"))>>)),
    Body("Internal Server Error", NotJSON),
    Body("null", Null) }

NoBody == Body("", Undef)

\* the bodies the API documents for the request a handler makes
ApiBodies(handler) ==
  CASE handler \in {"btnAll", "loadAll"} -> CourseBodies
    [] handler \in {"btnSearch", "doSearch"} -> SearchBodies
    [] OTHER -> ScheduleBodies

\* what may come back to a handler: a network error, a 2xx response with a body
\* of the documented shape or with another body, a non-2xx response with an
\* error body
Responses(handler) ==
  {[status |-> "neterr", body |-> NoBody]}
    \cup [status : {"ok"}, body : ApiBodies(handler) \cup ErrorBodies]
    \cup [status : {"fail"}, body : ErrorBodies]

ShapeOk(handler, res) == res.status = "ok" => res.body \in ApiBodies(handler)

\* ------------------------------------------------------ what the user types
QValues == {"", "  ", " ai "}
ReqKoValues == {"", " ", " no class on friday "}
\* days.value.split(",")
DaysValues == {<<"">>, <<"MON", " TUE ", "">>}
BlocksValues == {"", "6"}
MinutesValues == {"", "45"}
WeightValues == {"", "2"}

NoInput == [q |-> "", reqKo |-> "", days |-> <<"">>, blocks |-> "", minutes |-> "",
            noFri |-> FALSE, prefMorning |-> FALSE, prefCompact |-> FALSE, weight |-> ""]

FormInputs ==
  [q : {""}, reqKo : ReqKoValues, days : DaysValues, blocks : BlocksValues,
   minutes : MinutesValues, noFri : BOOLEAN, prefMorning : BOOLEAN,
   prefCompact : BOOLEAN, weight : WeightValues]

\* the forms submitted in Spec: each free-text value over an untouched form, and
\* a fully filled form without free text (SpecPure builds the payload of every form)
Forms ==
  {f \in FormInputs :
     \/ /\ f.days = <<"">> /\ f.blocks = "" /\ f.minutes = "" /\ f.weight = ""
        /\ ~f.noFri /\ ~f.prefMorning /\ ~f.prefCompact
     \/ /\ f.days # <<"">> /\ f.blocks # "" /\ f.minutes # "" /\ f.weight # ""
        /\ f.noFri /\ f.prefMorning /\ f.prefCompact /\ f.reqKo = ""}

\* ------------------------------------------------------------------- events
NoReq == [id |-> 0, handler |-> ""]
NoRes == [status |-> "none", body |-> NoBody]
NoAlert == <<>>
NoCall == [fn |-> "none", list |-> Undef, total |-> Undef, prior |-> <<>>, thrown |-> FALSE]

Click(control, input, sent, alert) ==
  [type |-> "click", control |-> control, input |-> input, sent |-> sent,
   req |-> NoReq, res |-> NoRes, alert |-> alert, uncaught |-> FALSE]

Settled(req, res, alert, uncaught) ==
  [type |-> "response", control |-> "", input |-> NoInput, sent |-> <<>>,
   req |-> req, res |-> res, alert |-> alert, uncaught |-> uncaught]

Fetch(method, path, query, body) ==
  [method |-> method, path |-> path, query |-> query, body |-> body]

\* a handler that aborts the requests still in flight before making its own
SuspendAbortsEarlier(handler) ==
  /\ inflight' = {[id |-> nextId, handler |-> handler]}
  /\ nextId' = nextId + 1
  /\ courseReq' = IF handler = "btnSchedule" THEN courseReq
                                            ELSE [courseReq EXCEPT !.issued = nextId]

\* the handler suspends at its await: one more request in flight
Suspend(handler) ==
  /\ inflight' = inflight \cup {[id |-> nextId, handler |-> handler]}
  /\ nextId' = nextId + 1
  /\ courseReq' = IF handler = "btnSchedule" THEN courseReq
                                            ELSE [courseReq EXCEPT !.issued = nextId]

Scripts == {"main", "app"}

Init ==
  /\ script \in Scripts
  /\ inflight = {[id |-> 1, handler |-> IF script = "main" THEN "btnAll" ELSE "loadAll"]}
  /\ nextId = 2
  /\ coursesInfo = <<>> /\ coursesWrap = <<>> /\ summary = <<>> /\ assignmentsWrap = <<>>
  /\ meta = <<>> /\ thead = <<>> /\ tbody = <<>>
  /\ src = [info |-> 0, wrap |-> 0, summary |-> 0, assignments |-> 0]
  /\ courseReq = [issued |-> 1, arrived |-> 0]
  /\ shapesOk = TRUE
  /\ anyFailed = FALSE
  /\ call = NoCall
  /\ event = IF script = "main"
               THEN Click("btnAll", NoInput,
                          <<Fetch("GET", "/courses", <<P("limit", "100"), P("offset", "0")>>, Undef)>>,
                          NoAlert)
               ELSE Click("DOMContentLoaded", NoInput,
                          <<Fetch("GET", "/courses", <<P("limit", "100")>>, Undef)>>, NoAlert)

\* ------------------------------------------------ main script: the handlers
\* btnAll click handler up to its await (lines 104-106)
BtnAllClick ==
  /\ script = "main" /\ nextId <= MaxRequests
  /\ Suspend("btnAll")
  /\ event' = Click("btnAll", NoInput,
                    <<Fetch("GET", "/courses", <<P("limit", "100"), P("offset", "0")>>, Undef)>>,
                    NoAlert)
  /\ UNCHANGED <<script, mainDom, appDom, src, shapesOk, anyFailed, call>>

\* btnSearch click handler up to its await, or to its early return (lines 114-118)
BtnSearchClick(qv) ==
  LET kw == Trim(qv)
      input == [NoInput EXCEPT !.q = qv]
  IN
  /\ script = "main"
  /\ IF kw = ""
       THEN /\ event' = Click("btnSearch", input, <<>>, <<"Enter a keyword.">>)
            /\ UNCHANGED <<inflight, nextId, courseReq>>
       ELSE /\ nextId <= MaxRequests
            /\ Suspend("btnSearch")
            /\ event' = Click("btnSearch", input,
                              <<Fetch("GET", "/search",
                                      <<P("q", kw), P("limit", "100"), P("offset", "0")>>, Undef)>>,
                              NoAlert)
  /\ UNCHANGED <<script, mainDom, appDom, src, shapesOk, anyFailed, call>>

\* Number(v || d)
NumberOr(v, d) == IF v = "" THEN d ELSE Number(v)

\* days.value.split(",").map(s => s.trim()).filter(Boolean)
GridDays(parts) ==
  LET trimmed == [i \in 1..Len(parts) |-> Trim(parts[i])]
      kept == SelectSeq(trimmed, LAMBDA x : x # "")
  IN Arr([i \in 1..Len(kept) |-> Str(kept[i])])

\* a payload that fills the structured fields whatever the free text holds
PayloadStructuredAlways(in) ==
  LET reqText == Trim(in.reqKo)
      structured == <<P("grid_days", GridDays(in.days)),
                      P("blocks_per_day", Num(NumberOr(in.blocks, 8))),
                      P("block_minutes", Num(NumberOr(in.minutes, 50))),
                      P("hard_no_friday_evening", Bool(in.noFri)),
                      P("soft_prefer_morning", Bool(in.prefMorning)),
                      P("soft_prefer_compact_days", Bool(in.prefCompact)),
                      P("soft_weight", Num(NumberOr(in.weight, 1)))>>
  IN IF reqText # ""
       THEN Obj(<<P("requirements_ko", Str(reqText))>> \o structured)
       ELSE Obj(structured)

\* the payload built by lines 128-141
Payload(in) ==
  LET reqText == Trim(in.reqKo)
  IN IF reqText # ""
       THEN Obj(<<P("requirements_ko", Str(reqText))>>)
       ELSE Obj(<<P("grid_days", GridDays(in.days)),
                  P("blocks_per_day", Num(NumberOr(in.blocks, 8))),
                  P("block_minutes", Num(NumberOr(in.minutes, 50))),
                  P("hard_no_friday_evening", Bool(in.noFri)),
                  P("soft_prefer_morning", Bool(in.prefMorning)),
                  P("soft_prefer_compact_days", Bool(in.prefCompact)),
                  P("soft_weight", Num(NumberOr(in.weight, 1)))>>)

\* btnSchedule click handler up to its await (lines 126-143)
BtnSchedulePost(in) ==
  /\ script = "main" /\ nextId <= MaxRequests
  /\ Suspend("btnSchedule")
  /\ event' = Click("btnSchedule", in, <<Fetch("POST", "/schedule", <<>>, Payload(in))>>, NoAlert)
  /\ UNCHANGED <<script, mainDom, appDom, src, shapesOk, anyFailed>>

BtnScheduleClick(in) == BtnSchedulePost(in) /\ UNCHANGED call

\* a request in flight settles: its handler leaves inflight and runs to its end
Settle(r, res) ==
  /\ r \in inflight
  /\ inflight' = inflight \ {r}
  /\ shapesOk' = (shapesOk /\ ShapeOk(r.handler, res))
  /\ anyFailed' = (anyFailed \/ res.status # "ok")
  /\ courseReq' = IF r.handler = "btnSchedule" THEN courseReq
                                              ELSE [courseReq EXCEPT !.arrived = r.id]
  /\ UNCHANGED <<script, nextId, call>>

\* a btnAll handler that drops a response when a later request has been issued
BtnAllResumeLatestOnly(r, res) ==
  LET a == ApiGet(res)
      rc == RenderCourses(a.value, Null, coursesInfo)
  IN
  /\ script = "main" /\ r.handler = "btnAll"
  /\ Settle(r, res)
  /\ IF a.thrown \/ r.id < courseReq.issued
       THEN /\ event' = Settled(r, res,
                                IF a.thrown THEN <<"Load failed: ", a.message>> ELSE NoAlert,
                                FALSE)
            /\ UNCHANGED <<coursesInfo, coursesWrap, src>>
       ELSE /\ coursesWrap' = rc.wrap
            /\ coursesInfo' = rc.info
            /\ src' = [src EXCEPT !.wrap = r.id,
                                  !.info = IF rc.wroteInfo THEN r.id ELSE @]
            /\ event' = Settled(r, res,
                                IF rc.thrown THEN <<"Load failed: ", "TypeError">> ELSE NoAlert,
                                FALSE)
  /\ UNCHANGED <<summary, assignmentsWrap, appDom>>

\* btnAll click handler after its await (lines 106-111)
BtnAllResume(r, res) ==
  LET a == ApiGet(res)
      rc == RenderCourses(a.value, Null, coursesInfo)
  IN
  /\ script = "main" /\ r.handler = "btnAll"
  /\ Settle(r, res)
  /\ IF a.thrown
       THEN /\ event' = Settled(r, res, <<"Load failed: ", a.message>>, FALSE)
            /\ UNCHANGED <<coursesInfo, coursesWrap, src>>
       ELSE /\ coursesWrap' = rc.wrap
            /\ coursesInfo' = rc.info
            /\ src' = [src EXCEPT !.wrap = r.id,
                                  !.info = IF rc.wroteInfo THEN r.id ELSE @]
            /\ event' = Settled(r, res,
                                IF rc.thrown THEN <<"Load failed: ", "TypeError">> ELSE NoAlert,
                                FALSE)
  /\ UNCHANGED <<summary, assignmentsWrap, appDom>>

\* btnSearch click handler after its await (lines 118-123)
BtnSearchResume(r, res) ==
  LET a == ApiGet(res)
      data == a.value
      rc == RenderCourses(Get(data, "results"), Get(data, "total"), coursesInfo)
  IN
  /\ script = "main" /\ r.handler = "btnSearch"
  /\ Settle(r, res)
  /\ IF a.thrown \/ Nullish(data)
       THEN /\ event' = Settled(r, res,
                                <<"Search failed: ", IF a.thrown THEN a.message ELSE "TypeError">>,
                                FALSE)
            /\ UNCHANGED <<coursesInfo, coursesWrap, src>>
       ELSE /\ coursesWrap' = rc.wrap
            /\ coursesInfo' = rc.info
            /\ src' = [src EXCEPT !.wrap = r.id,
                                  !.info = IF rc.wroteInfo THEN r.id ELSE @]
            /\ event' = Settled(r, res,
                                IF rc.thrown THEN <<"Search failed: ", "TypeError">> ELSE NoAlert,
                                FALSE)
  /\ UNCHANGED <<summary, assignmentsWrap, appDom>>

\* res.solution?.assignments || []
Assignments(v) ==
  Or(IF Nullish(Get(v, "solution")) THEN Undef ELSE Get(Get(v, "solution"), "assignments"),
     Arr(<<>>))

\* btnSchedule click handler after its await (lines 143-156)
BtnScheduleResume(r, res) ==
  LET a == ApiPost(res)
      v == a.value
      ra == RenderAssignments(Assignments(v))
  IN
  /\ script = "main" /\ r.handler = "btnSchedule"
  /\ Settle(r, res)
  /\ IF a.thrown \/ Nullish(v)
       THEN /\ event' = Settled(r, res,
                                <<"Schedule failed: ", IF a.thrown THEN a.message ELSE "TypeError">>,
                                FALSE)
            /\ UNCHANGED <<summary, assignmentsWrap, src>>
       ELSE /\ summary' = <<SummaryHtml(Or(Get(v, "summary"), Obj(<<>>)))>>
            /\ assignmentsWrap' = ra.wrap
            /\ src' = [src EXCEPT !.summary = r.id, !.assignments = r.id]
            /\ event' = Settled(r, res,
                                IF ra.thrown THEN <<"Schedule failed: ", "TypeError">> ELSE NoAlert,
                                FALSE)
  /\ UNCHANGED <<coursesInfo, coursesWrap, appDom>>

\* ------------------------------------------------------------ app.js: calls
\* loadAll up to its first await (line 18)
LoadAllCall(control, input) ==
  /\ script = "app" /\ nextId <= MaxRequests
  /\ Suspend("loadAll")
  /\ event' = Click(control, input,
                    <<Fetch("GET", "/courses", <<P("limit", "100")>>, Undef)>>, NoAlert)
  /\ UNCHANGED <<script, mainDom, appDom, src, shapesOk, anyFailed, call>>

LoadAll == LoadAllCall("loadAll", NoInput)

\* a doSearch that returns on a blank keyword without loading anything
DoSearchIgnoresBlank(qv) ==
  LET kw == Trim(qv)
      input == [NoInput EXCEPT !.q = qv]
  IN
  /\ script = "app"
  /\ IF kw = ""
       THEN /\ event' = Click("doSearch", input, <<>>, NoAlert)
            /\ UNCHANGED <<inflight, nextId, courseReq>>
       ELSE /\ nextId <= MaxRequests
            /\ Suspend("doSearch")
            /\ event' = Click("doSearch", input,
                              <<Fetch("GET", "/search", <<P("q", kw), P("limit", "100")>>, Undef)>>,
                              NoAlert)
  /\ UNCHANGED <<script, mainDom, appDom, src, shapesOk, anyFailed, call>>

\* doSearch up to its await, or its hand-over to loadAll (lines 24-27)
DoSearch(qv) ==
  LET kw == Trim(qv)
      input == [NoInput EXCEPT !.q = qv]
  IN
  IF kw = ""
    THEN LoadAllCall("doSearch", input)
    ELSE /\ script = "app" /\ nextId <= MaxRequests
         /\ Suspend("doSearch")
         /\ event' = Click("doSearch", input,
                           <<Fetch("GET", "/search", <<P("q", kw), P("limit", "100")>>, Undef)>>,
                           NoAlert)
         /\ UNCHANGED <<script, mainDom, appDom, src, shapesOk, anyFailed, call>>

\* loadAll after fetch settles (lines 18-21); nothing catches what it throws
LoadAllResume(r, res) ==
  LET data == res.body.json
      rd == Render(data)
  IN
  /\ script = "app" /\ r.handler = "loadAll"
  /\ Settle(r, res)
  /\ IF res.status = "neterr" \/ data = NotJSON \/ Nullish(data)
       THEN /\ event' = Settled(r, res, NoAlert, TRUE)
            /\ UNCHANGED <<appDom, src>>
       ELSE /\ meta' = <<"Shown: ", ToStr(Get(data, "length")), " items">>
            /\ thead' = rd.thead
            /\ tbody' = rd.tbody
            /\ src' = [src EXCEPT !.info = r.id, !.wrap = r.id]
            /\ event' = Settled(r, res, NoAlert, rd.thrown)
  /\ UNCHANGED mainDom

\* doSearch after fetch settles (lines 27-30)
DoSearchResume(r, res) ==
  LET data == res.body.json
      rd == Render(Get(data, "results"))
  IN
  /\ script = "app" /\ r.handler = "doSearch"
  /\ Settle(r, res)
  /\ IF res.status = "neterr" \/ data = NotJSON \/ Nullish(data)
       THEN /\ event' = Settled(r, res, NoAlert, TRUE)
            /\ UNCHANGED <<appDom, src>>
       ELSE /\ meta' = <<"Search results: ", ToStr(Get(data, "total")), " items">>
            /\ thead' = rd.thead
            /\ tbody' = rd.tbody
            /\ src' = [src EXCEPT !.info = r.id, !.wrap = r.id]
            /\ event' = Settled(r, res, NoAlert, rd.thrown)
  /\ UNCHANGED mainDom

Next ==
  \/ BtnAllClick
  \/ \E qv \in QValues : BtnSearchClick(qv)
  \/ \E in \in Forms : BtnScheduleClick(in)
  \/ \E r \in inflight : \E res \in Responses(r.handler) : BtnAllResume(r, res)
  \/ \E r \in inflight : \E res \in Responses(r.handler) : BtnSearchResume(r, res)
  \/ \E r \in inflight : \E res \in Responses(r.handler) : BtnScheduleResume(r, res)
  \/ LoadAll
  \/ \E qv \in QValues : DoSearch(qv)
  \/ \E r \in inflight : \E res \in Responses(r.handler) : LoadAllResume(r, res)
  \/ \E r \in inflight : \E res \in Responses(r.handler) : DoSearchResume(r, res)

Spec == Init /\ [][Next]_vars

\* ------------------------------------- the functions taken one call at a time
\* SpecPure applies a render function, or the btnSchedule handler, once to every
\* input of the sets below, over a page that is empty or already shows a table.
CourseKeyOrders == {<<>>, <<"id">>, <<"name">>, <<"id", "name">>, <<"name", "id">>}
CellValues == {Null, Str("AI"), Str(Markup)}
Items ==
  UNION {{Obj([i \in 1..Len(ko) |-> P(ko[i], vs[i])]) : vs \in [1..Len(ko) -> CellValues]}
         : ko \in CourseKeyOrders}
Lists(n) == [1..n -> Items]
Totals == {Null, Num(7)}
Assign2 == Obj(<<P("course_id", Str("c2")), P("session_index", Num(1)), P("day", Str("FRI")),
                 P("block", Num(5)), P("room_id", Str("R2"))>>)
AssignmentLists(n) == [1..n -> {Assign1, Assign2}]

OldTable == <<Table(<<"id">>, << <<"c0">> >>)>>
Called(fn, list, total, prior, thrown) ==
  [fn |-> fn, list |-> list, total |-> total, prior |-> prior, thrown |-> thrown]

InitPure ==
  /\ script \in Scripts
  /\ inflight = {} /\ nextId = 1
  /\ coursesInfo = <<>> /\ summary = <<>> /\ meta = <<>>
  /\ \E shown \in BOOLEAN :
       IF script = "main"
         THEN /\ coursesWrap = (IF shown THEN OldTable ELSE <<>>)
              /\ assignmentsWrap = coursesWrap
              /\ thead = <<>> /\ tbody = <<>>
         ELSE /\ thead = (IF shown THEN << <<"id">> >> ELSE <<>>)
              /\ tbody = (IF shown THEN << <<"c0">> >> ELSE <<>>)
              /\ coursesWrap = <<>> /\ assignmentsWrap = <<>>
  /\ src = [info |-> 0, wrap |-> 0, summary |-> 0, assignments |-> 0]
  /\ courseReq = [issued |-> 0, arrived |-> 0]
  /\ shapesOk = TRUE
  /\ anyFailed = FALSE
  /\ call = NoCall
  /\ event = Settled(NoReq, NoRes, NoAlert, FALSE)

CallRenderCourses(list, total) ==
  LET rc == RenderCourses(list, total, coursesInfo)
  IN
  /\ script = "main" /\ call = NoCall
  /\ coursesWrap' = rc.wrap
  /\ coursesInfo' = rc.info
  /\ call' = Called("renderCourses", list, total, coursesWrap, rc.thrown)
  /\ UNCHANGED <<script, inflight, nextId, summary, assignmentsWrap, appDom, src,
                 courseReq, shapesOk, anyFailed, event>>

CallRender(rows) ==
  LET rd == Render(rows)
  IN
  /\ script = "app" /\ call = NoCall
  /\ thead' = rd.thead
  /\ tbody' = rd.tbody
  /\ call' = Called("render", rows, Undef, thead \o tbody, rd.thrown)
  /\ UNCHANGED <<script, inflight, nextId, mainDom, meta, src, courseReq, shapesOk,
                 anyFailed, event>>

CallRenderAssignments(assignments) ==
  LET ra == RenderAssignments(assignments)
  IN
  /\ script = "main" /\ call = NoCall
  /\ assignmentsWrap' = ra.wrap
  /\ call' = Called("renderAssignments", assignments, Undef, assignmentsWrap, ra.thrown)
  /\ UNCHANGED <<script, inflight, nextId, coursesInfo, coursesWrap, summary, appDom, src,
                 courseReq, shapesOk, anyFailed, event>>

SubmitForm(in) ==
  /\ call = NoCall
  /\ BtnSchedulePost(in)
  /\ call' = Called("btnSchedule", Undef, Undef, <<>>, FALSE)

NextPure ==
  \/ call = NoCall /\ \E n \in 0..MaxLen : \E list \in Lists(n), total \in Totals :
       CallRenderCourses(Arr(list), total)
  \/ call = NoCall /\ \E n \in 0..MaxLen : \E rows \in Lists(n) : CallRender(Arr(rows))
  \/ call = NoCall /\ \E n \in 0..MaxLen : \E a \in AssignmentLists(n) :
       CallRenderAssignments(Arr(a))
  \/ call = NoCall /\ \E a \in {Null, Undef} : CallRenderAssignments(a)
  \/ call = NoCall /\ \E in \in FormInputs : SubmitForm(in)

SpecPure == InitPure /\ [][NextPure]_vars

\* =================================================================== claims
IsResponse == event.type = "response"
IsClick == event.type = "click"

\* the message the documented error contract asks for: detail, else message, else the text
ContractMessage(body) ==
  IF body.json = NotJSON \/ body.json.t # "obj" THEN body.txt
  ELSE IF Truthy(Get(body.json, "detail")) THEN Get(body.json, "detail").s
  ELSE IF Truthy(Get(body.json, "message")) THEN Get(body.json, "message").s
  ELSE body.txt

\* C1: for every non-2xx response received by apiGet or apiPost the thrown
\* Error's message (shown by the handler's alert) is the body's non-empty
\* detail field, else its non-empty message field, else the raw response text.
C1_ErrorMessageFromBody ==
  (IsResponse /\ script = "main" /\ event.res.status = "fail")
    => (Len(event.alert) = 2 /\ event.alert[2] = ContractMessage(event.res.body))

\* a request failed: network error, non-2xx status, or a body that is not JSON
Failed(res) == res.status \in {"neterr", "fail"} \/ res.body.json = NotJSON

\* C2: in both scripts every failure of a handler's request (network error,
\* non-2xx status, body that is not valid JSON) ends with an alert, and never
\* escapes as an uncaught rejection.
C2_FailuresAlerted ==
  (IsResponse /\ Failed(event.res)) => (event.alert # NoAlert /\ ~event.uncaught)

\* the header and the body rows shown for courses, in either script
ShownHead ==
  IF script = "main"
    THEN IF coursesWrap # <<>> /\ coursesWrap[1].tag = "table" THEN <<coursesWrap[1].head>> ELSE <<>>
    ELSE thead
ShownRows ==
  IF script = "main"
    THEN IF coursesWrap # <<>> /\ coursesWrap[1].tag = "table" THEN coursesWrap[1].rows ELSE <<>>
    ELSE tbody

\* C3: for every non-empty list of N items given to render or renderCourses
\* the table has N body rows in input order, its header columns are the keys
\* of the first item in order, and each cell is the item's value under that
\* key, or empty when that value is null or missing.
C3_OneRowPerItem ==
  (call.fn \in {"render", "renderCourses"} /\ call.list.a # <<>>)
    => LET items == call.list.a
           cols == Keys(items[1])
       IN /\ ShownHead = <<cols>>
          /\ Len(ShownRows) = Len(items)
          /\ \A i \in 1..Len(items) :
               /\ Len(ShownRows[i]) = Len(cols)
               /\ \A c \in 1..Len(cols) :
                    ShownRows[i][c] = IF Nullish(Get(items[i], cols[c]))
                                        THEN "" ELSE Get(items[i], cols[c]).s

\* C4: rendering an empty list with render, renderCourses or renderAssignments
\* (for renderAssignments also null or undefined) replaces what was shown by
\* the "no data" placeholder and leaves no data row.
C4_EmptyShowsPlaceholder ==
  /\ (call.fn = "render" /\ call.list = Arr(<<>>)) => (thead = <<NoData>> /\ tbody = <<>>)
  /\ (call.fn = "renderCourses" /\ call.list = Arr(<<>>)) => coursesWrap = <<NoResults>>
  /\ (call.fn = "renderAssignments" /\ call.list \in {Null, Undef, Arr(<<>>)})
       => assignmentsWrap = <<NoAssignments>>

C4_Witness ==
  /\ call.fn = "renderAssignments" /\ call.list = Null /\ call.prior = OldTable
  /\ assignmentsWrap = <<NoAssignments>>

StructuredFields ==
  <<"grid_days", "blocks_per_day", "block_minutes", "hard_no_friday_evening",
    "soft_prefer_morning", "soft_prefer_compact_days", "soft_weight">>

\* C5: the body the btnSchedule handler posts holds only requirements_ko (the
\* trimmed text) when the trimmed free-text requirement is non-empty, and
\* otherwise exactly the seven structured fields and no requirements_ko.
C5_PayloadShape ==
  (IsClick /\ event.control = "btnSchedule")
    => /\ Len(event.sent) = 1
       /\ event.sent[1].path = "/schedule" /\ event.sent[1].method = "POST"
       /\ LET body == event.sent[1].body
              text == event.input.reqKo
          IN IF text \in {"", " "}
               THEN Keys(body) = StructuredFields
               ELSE /\ Keys(body) = <<"requirements_ko">>
                    /\ body.o[1].v = Str("no class on friday")

C5_Witness ==
  /\ IsClick /\ event.control = "btnSchedule" /\ event.input.reqKo = " no class on friday "
  /\ event.input.blocks = "6" /\ Keys(event.sent[1].body) = <<"requirements_ko">>

\* C6 as stated: every user action issues exactly one network request.
C6_OneRequestPerAction == IsClick => Len(event.sent) = 1

BlankKeyword(e) == e.control = "btnSearch" /\ e.input.q \in {"", "  "}

\* C6 amended: every user action issues exactly one request and puts it in
\* flight, except a search click in the main script with an empty or
\* whitespace-only keyword, which issues none and alerts; a response, failed
\* or not, issues none.
C6_OneRequestUnlessBlankSearch ==
  [][ LET n == nextId' - nextId
      IN /\ event'.type = "click" =>
              /\ n = (IF BlankKeyword(event') THEN 0 ELSE 1)
              /\ Len(event'.sent) = n
              /\ Cardinality(inflight') = Cardinality(inflight) + n
              /\ BlankKeyword(event') => event'.alert = <<"Enter a keyword.">>
         /\ event'.type = "response" => (n = 0 /\ event'.sent = <<>>) ]_vars

C6_Witness ==
  /\ IsClick /\ script = "main" /\ event.control = "btnSearch" /\ event.input.q = "  "
  /\ event.sent = <<>> /\ inflight # {}

RowCount(wrap) == IF wrap # <<>> /\ wrap[1].tag = "table" THEN Len(wrap[1].rows) ELSE 0

\* C7: a click made while requests are in flight is not ignored and cancels
\* none of them, and every request that completes successfully has its
\* response rendered when it arrives, whatever was issued after it.
C7_NoCancelAlwaysRendered ==
  [][ /\ \A r \in inflight : r \in inflight' \/ (event'.type = "response" /\ event'.req = r)
      /\ (event'.type = "click" /\ ~BlankKeyword(event'))
           => \E r \in inflight' \ inflight : r.id = nextId
      /\ (event'.type = "response" /\ event'.res.status = "ok"
            /\ ShapeOk(event'.req.handler, event'.res))
           => LET json == event'.res.body.json
              IN CASE event'.req.handler \in {"btnAll", "loadAll"} ->
                        /\ src'.wrap = event'.req.id /\ src'.info = event'.req.id
                        /\ (IF script = "main" THEN RowCount(coursesWrap') ELSE Len(tbody'))
                             = Len(json.a)
                   [] event'.req.handler \in {"btnSearch", "doSearch"} ->
                        /\ src'.wrap = event'.req.id /\ src'.info = event'.req.id
                        /\ (IF script = "main" THEN RowCount(coursesWrap') ELSE Len(tbody'))
                             = Len(Get(json, "results").a)
                   [] OTHER ->
                        /\ src'.assignments = event'.req.id /\ src'.summary = event'.req.id
                        /\ RowCount(assignmentsWrap')
                             = Len(Get(Get(json, "solution"), "assignments").a) ]_vars

C7_Witness ==
  /\ IsResponse /\ event.res.status = "ok" /\ ShapeOk(event.req.handler, event.res)
  /\ Cardinality(inflight) >= 2
  /\ \E r \in inflight : r.id > event.req.id
  /\ src.wrap = event.req.id

\* C8 as stated: once no request is in flight the courses table shows the
\* response to the most recently issued load-all or search request.
C8_LatestIssuedShown ==
  (inflight = {} /\ shapesOk /\ ~anyFailed) => src.wrap = courseReq.issued

\* C8 amended: once no request is in flight (all responses successful and of
\* the API's shapes) the courses table shows the response that arrived last,
\* which need not be that of the most recently issued request.
C8_LastArrivedShown ==
  (inflight = {} /\ shapesOk /\ ~anyFailed) => src.wrap = courseReq.arrived

C8_Witness ==
  /\ inflight = {} /\ shapesOk /\ ~anyFailed
  /\ src.wrap = courseReq.arrived /\ courseReq.arrived < courseReq.issued

\* C9: when a handler's request fails (network error or non-2xx status) the
\* handler leaves everything rendered unchanged.
C9_FailureChangesNothing ==
  [][ (event'.type = "response" /\ event'.res.status \in {"neterr", "fail"})
        => UNCHANGED <<mainDom, appDom>> ]_vars

\* C10: provided responses have the API's shapes, the count label and the
\* courses table derive from the same response, and so do the schedule
\* summary and the assignments table, under any interleaving.
C10_SameResponse ==
  shapesOk =>
    /\ src.info = src.wrap
    /\ src.summary = src.assignments
    /\ (script = "main" /\ coursesInfo # <<>> /\ coursesInfo[1] = "Total ")
         => coursesInfo[2] = NumStr(RowCount(coursesWrap))
    /\ (script = "app" /\ meta # <<>> /\ meta[1] = "Shown: " /\ meta[2] # "undefined")
         => meta[2] = NumStr(Len(tbody))

C10_Witness ==
  /\ shapesOk /\ inflight # {} /\ src.wrap > 1 /\ src.summary > 0
  /\ coursesInfo # <<>> /\ coursesInfo[1] = "Search results "

====
